---- MODULE Spec2Model ----
(***************************************************************************)
(* The filter-query compiler of docarray: docarray/array/queryset/parser.py *)
(* (_parse_lookups and the QueryParser facade), with the predicate tree of  *)
(* docarray/array/queryset/lookup.py (LookupNode, LookupLeaf, Q) that the   *)
(* parser builds and the facade evaluates.                                  *)
(***************************************************************************)
EXTENDS Integers, Sequences, FiniteSets, TLC

VARIABLES
    arg,            \* the condition spec handed to QueryParser(...)
    phase,          \* "new" | "ready" (constructed) | "failed" (__init__ raised)
    conditions,     \* self.conditions
    lookup_groups,  \* self.lookup_groups: a predicate tree or None
    error,          \* the exception __init__ raised, NoError otherwise
    pc,             \* per caller: "idle" | "evaluating" | "returned"
    doc,            \* per caller: the document passed to evaluate
    result          \* per caller: the value evaluate returned

vars == <<arg, phase, conditions, lookup_groups, error, pc, doc, result>>

----------------------------------------------------------------------------
(* Bounds of the model.                                                     *)

\* longest list generated under a logical key
MaxLen == 2
\* number of concurrent callers of one facade
NumCallers == 2

----------------------------------------------------------------------------
(* JSON-like values.  Every value is a record of one shape:                 *)
(*   t = "map"  : e is the sequence of entries [k, v] in insertion order    *)
(*   t = "list" : e is the sequence of elements, as entries with k = ""     *)
(*   t = "num" / "bool" : n is the number (bool: 0 or 1)                    *)
(*   t = "null" ; t = "absent" is the resolver's sentinel, never an input   *)

Entry(k, v) == [k |-> k, v |-> v]
Map(es) == [t |-> "map", e |-> es, n |-> 0]
List(vs) == [t |-> "list", e |-> [i \in 1..Len(vs) |-> Entry("", vs[i])], n |-> 0]
Num(n) == [t |-> "num", e |-> <<>>, n |-> n]
Bool(b) == [t |-> "bool", e |-> <<>>, n |-> IF b THEN 1 ELSE 0]
Null == [t |-> "null", e |-> <<>>, n |-> 0]
Absent == [t |-> "absent", e |-> <<>>, n |-> 0]

EmptyMap == Map(<<>>)
EmptyList == List(<<>>)
Map1(k, v) == Map(<<Entry(k, v)>>)
Map2(k1, v1, k2, v2) == Map(<<Entry(k1, v1), Entry(k2, v2)>>)

isinstance_dict(x) == x.t = "map"
isinstance_list(x) == x.t = "list"

Truthy_Always(x) == TRUE
\* Python truthiness of a JSON value (`not value`, parser.py line 54)
Truthy(x) ==
    CASE x.t = "map" -> Len(x.e) > 0
      [] x.t = "list" -> Len(x.e) > 0
      [] x.t = "num" -> x.n # 0
      [] x.t = "bool" -> x.n # 0
      [] OTHER -> FALSE

startswith_dollar_Never(key) == FALSE
\* str.startswith('$')
startswith_dollar(key) == Len(key) >= 1 /\ SubSeq(key, 1, 1) = "$"

----------------------------------------------------------------------------
(* Operator registry, parser.py lines 8-31.                                 *)

LOGICAL_OPERATORS == {"$and", "$or", "$not"}

COMPARISON_OPERATORS == {"$lt", "$gt", "$lte", "$gte", "$eq", "$neq", "$exists"}
REGEX_OPERATORS == {"$regex"}
ARRAY_OPERATORS == {"$size"}
MEMBERSHIP_OPERATORS == {"$in", "$nin"}

SUPPORTED_OPERATORS ==
    COMPARISON_OPERATORS \cup ARRAY_OPERATORS \cup REGEX_OPERATORS
        \cup MEMBERSHIP_OPERATORS

\* SUPPORTED_OPERATORS[op]: the lookup suffix of a token
OperatorName(op) ==
    CASE op = "$lt" -> "lt"
      [] op = "$gt" -> "gt"
      [] op = "$lte" -> "lte"
      [] op = "$gte" -> "gte"
      [] op = "$eq" -> "exact"
      [] op = "$neq" -> "neq"
      [] op = "$exists" -> "exists"
      [] op = "$regex" -> "regex"
      [] op = "$size" -> "size"
      [] op = "$in" -> "in"
      [] op = "$nin" -> "nin"

----------------------------------------------------------------------------
(* Predicate tree (lookup.py).  One record shape for None, LookupNode and   *)
(* LookupLeaf.                                                              *)

None == [kind |-> "none", op |-> "", negate |-> FALSE, children |-> <<>>,
         lookup |-> "", val |-> Null]

\* LookupNode(op='and', negate=False)
LookupNode(op, negate) ==
    [kind |-> "node", op |-> op, negate |-> negate, children |-> <<>>,
     lookup |-> "", val |-> Null]

\* Q(**{lookup: val}) = LookupLeaf(lookup=val)
Q(lookup, val) ==
    [kind |-> "leaf", op |-> "", negate |-> FALSE, children |-> <<>>,
     lookup |-> lookup, val |-> val]

isinstance_LookupLeaf(x) == x.kind = "leaf"

\* truthiness of a tree reference: None is false, every object is true
IsSet(x) == x.kind # "none"

----------------------------------------------------------------------------
(* Results of a (possibly raising) call.                                    *)

NoError == [kind |-> "", tok |-> ""]
Return(node) == [ok |-> TRUE, node |-> node, err |-> NoError]
Raise(kind, tok) == [ok |-> FALSE, node |-> None, err |-> [kind |-> kind, tok |-> tok]]

\* the three ValueErrors of _parse_lookups
RaiseUnsupported(tok) == Raise("unsupported", tok)
RaiseNotValidQuery == Raise("malformed", "")
RaiseIllegal == Raise("illegal", "")

----------------------------------------------------------------------------
(* lookup.py: LookupNode.add_child appends to self.children.  A LookupLeaf  *)
(* has no children and no add_child: calling it raises AttributeError.      *)

add_child(node, child) ==
    IF node.kind = "node"
    THEN Return([node EXCEPT !.children = Append(@, child)])
    ELSE Raise("attribute", "add_child")

----------------------------------------------------------------------------
(* _parse_lookups, parser.py lines 34-98.                                   *)

\* lines 37-40: a bare leaf root is wrapped in a default LookupNode
WrapLeaf(root_node) ==
    IF isinstance_LookupLeaf(root_node)
    THEN add_child(LookupNode("and", FALSE), root_node).node
    ELSE root_node

\* line 78: node = LookupNode(), the node over several operators of a field
ImplicitNode_Or == LookupNode("or", FALSE)
ImplicitNode == LookupNode("and", FALSE)

LogicalNode_AndAsOr(key) ==
    IF key = "$not"
    THEN LookupNode("and", TRUE)
    ELSE LookupNode("or", FALSE)
LogicalNode_NotUnnegated(key) ==
    LookupNode(IF key = "$or" THEN "or" ELSE "and", FALSE)
\* lines 43-46: the node created for a logical key
\* (LOGICAL_OPERATORS: '$and' -> 'and', '$or' -> 'or', '$not' -> True)
LogicalNode(key) ==
    IF key = "$not"
    THEN LookupNode("and", TRUE)
    ELSE LookupNode(IF key = "$and" THEN "and" ELSE "or", FALSE)

ScopedLogicalNode_AndAsOr(op) ==
    IF op = "$not"
    THEN LookupNode("and", TRUE)
    ELSE LookupNode("or", FALSE)
\* lines 65-68: the node created for a logical token that is the single
\* operator of a field; the field name is not passed on
ScopedLogicalNode(op) ==
    IF op = "$not"
    THEN LookupNode("and", TRUE)
    ELSE LookupNode(IF op = "$and" THEN "and" ELSE "or", FALSE)

\* lines 83-86 and 91-94: attach the node of one entry / element to the root
Attach(root_node, node) ==
    IF IsSet(root_node) /\ IsSet(node)
    THEN add_child(root_node, node)
    ELSE IF IsSet(node)
         THEN Return(node)
         ELSE Return(root_node)

\* line 71: Q(**{f'{key}__{SUPPORTED_OPERATORS[op]}': val})
LeafFor(key, op, val) == Q(key \o "__" \o OperatorName(op), val)

RECURSIVE _parse_lookups(_, _)
RECURSIVE ParseDictFrom(_, _, _)
RECURSIVE ParseListFrom(_, _, _)
RECURSIVE ParseEntry(_, _)
RECURSIVE ParseItemsFrom(_, _, _, _)

\* lines 77-81: several operators on one field
ParseItemsFrom(key, items, i, node) ==
    IF i > Len(items)
    THEN Return(node)
    ELSE LET r == _parse_lookups(Map1(key, Map1(items[i].k, items[i].v)), None)
         IN  IF ~r.ok
             THEN r
             ELSE LET a == add_child(node, r.node)
                  IN  IF ~a.ok THEN a ELSE ParseItemsFrom(key, items, i + 1, a.node)

\* lines 42-81: the node of one mapping entry
ParseEntry(key, value) ==
    IF key \in LOGICAL_OPERATORS
    THEN _parse_lookups(value, LogicalNode(key))
    ELSE IF startswith_dollar(key)
    THEN RaiseUnsupported(key)
    ELSE IF ~Truthy(value) \/ ~isinstance_dict(value)
    THEN RaiseNotValidQuery
    ELSE IF Len(value.e) = 1
    THEN LET op == value.e[1].k
             val == value.e[1].v
         IN  IF op \in LOGICAL_OPERATORS
             THEN _parse_lookups(val, ScopedLogicalNode(op))
             ELSE IF op \in SUPPORTED_OPERATORS
             THEN Return(LeafFor(key, op, val))
             ELSE RaiseUnsupported(op)
    ELSE ParseItemsFrom(key, value.e, 1, ImplicitNode)

\* lines 36-86: the loop over data.items(), from entry i on
ParseDictFrom(items, i, root_node) ==
    IF i > Len(items)
    THEN Return(root_node)
    ELSE LET root == WrapLeaf(root_node)
             r == ParseEntry(items[i].k, items[i].v)
         IN  IF ~r.ok
             THEN r
             ELSE LET a == Attach(root, r.node)
                  IN  IF ~a.ok THEN a ELSE ParseDictFrom(items, i + 1, a.node)

\* lines 88-94: the loop over a list, from element i on
ParseListFrom(elems, i, root_node) ==
    IF i > Len(elems)
    THEN Return(root_node)
    ELSE LET r == _parse_lookups(elems[i].v, None)
         IN  IF ~r.ok
             THEN r
             ELSE LET a == Attach(root_node, r.node)
                  IN  IF ~a.ok THEN a ELSE ParseListFrom(elems, i + 1, a.node)

_parse_lookups(data, root_node) ==
    IF isinstance_dict(data)
    THEN ParseDictFrom(data.e, 1, root_node)
    ELSE IF isinstance_list(data)
    THEN ParseListFrom(data.e, 1, root_node)
    ELSE RaiseIllegal

----------------------------------------------------------------------------
(* Documents and the evaluator (lookup.py: lookup, LookupNode.evaluate,     *)
(* LookupLeaf.evaluate).                                                    *)

Fields == {"a", "b"}
DocValues == {Absent, Num(0), Num(1)}
Docs == [Fields -> DocValues]

\* the field resolver: the value at a field path, or Absent
resolve(d, field_path) == IF field_path \in DOMAIN d THEN d[field_path] ELSE Absent

\* position of the last "__" of a lookup key
LastDunder(key) ==
    CHOOSE i \in 1..(Len(key) - 1) :
        /\ SubSeq(key, i, i + 1) = "__"
        /\ \A j \in (i + 1)..(Len(key) - 1) : SubSeq(key, j, j + 1) # "__"

\* the test of one leaf: field path and operator name are the two sides of
\* the last "__" of the lookup key
lookup(key, val, d) ==
    LET i == LastDunder(key)
        x == resolve(d, SubSeq(key, 1, i - 1))
        last == SubSeq(key, i + 2, Len(key))
        comparable == x.t = "num" /\ val.t = "num"
        exact == IF x = Absent THEN val = Null ELSE x = val
        member == /\ x # Absent
                  /\ val.t = "list"
                  /\ \E j \in 1..Len(val.e) : val.e[j].v = x
    IN  CASE last = "lt" -> comparable /\ x.n < val.n
          [] last = "gt" -> comparable /\ x.n > val.n
          [] last = "lte" -> comparable /\ x.n <= val.n
          [] last = "gte" -> comparable /\ x.n >= val.n
          [] last = "exact" -> exact
          [] last = "neq" -> ~exact
          [] last = "exists" -> Truthy(val) = (x # Absent /\ x # Null)
          [] last = "regex" -> FALSE   \* no document value here is a string
          [] last = "size" -> x.t = "list" /\ val.t = "num" /\ Len(x.e) = val.n
          [] last = "in" -> member
          [] last = "nin" -> ~member
          [] OTHER -> FALSE

RECURSIVE evaluate(_, _)
\* LookupNode.evaluate: any/all over the children, then negate;
\* LookupLeaf.evaluate: the leaf's lookup
evaluate(node, d) ==
    IF node.kind = "leaf"
    THEN lookup(node.lookup, node.val, d)
    ELSE LET n == Len(node.children)
             r == IF node.op = "or"
                  THEN \E i \in 1..n : evaluate(node.children[i], d)
                  ELSE \A i \in 1..n : evaluate(node.children[i], d)
         IN  IF node.negate THEN ~r ELSE r

----------------------------------------------------------------------------
(* QueryParser, parser.py lines 101-112.                                    *)

QueryParser_evaluate_NoneFalse(groups, d) ==
    IF IsSet(groups) THEN evaluate(groups, d) ELSE FALSE
\* line 109: self.lookup_groups.evaluate(doc) if self.lookup_groups else True
QueryParser_evaluate(groups, d) ==
    IF IsSet(groups) THEN evaluate(groups, d) ELSE TRUE

----------------------------------------------------------------------------
(* The condition specs the facade is constructed from.                      *)

SeqsUpTo(S, n) == UNION {[1..k -> S] : k \in 0..n}
SeqsFrom2(S, n) == UNION {[1..k -> S] : k \in 2..n}
DistinctKeys(es) == \A i, j \in 1..Len(es) : i # j => es[i].k # es[j].k

Operands == {Num(0), Num(1)}
Scalars == {Num(0), Num(1), Null, Bool(TRUE)}

\* a token outside the registry, with and without the '$'
Tokens == LOGICAL_OPERATORS \cup SUPPORTED_OPERATORS \cup {"$foo", "gt"}

La == Map1("a", Map1("$gt", Num(0)))
Lb == Map1("b", Map1("$eq", Num(1)))
Lb0 == Map1("b", Map1("$eq", Num(0)))
OrAB == Map1("$or", List(<<La, Lb>>))

\* components: empty, leaves, node-rooted, list-rooted and failing specs
Components ==
    { EmptyMap, EmptyList, La, Lb,
      Map1("a", Map2("$gte", Num(0), "$lt", Num(1))),
      OrAB,
      Map1("$not", La),
      Map2("$or", List(<<La, Lb>>), "b", Map1("$eq", Num(0))),
      Map2("a", Map1("$gt", Num(0)), "$or", List(<<Lb, Lb0>>)),
      List(<<La, Lb>>),
      List(<<OrAB, Lb0>>),
      Map1("a", Map1("$foo", Num(1))),
      Map1("a", Num(1)),
      Num(1) }

\* single conditions: every shape of one field entry or one '$' key
Singles ==
    Scalars \cup {EmptyMap, EmptyList}
    \cup {Map1(f, x) : f \in Fields,
                       x \in Scalars \cup {EmptyMap, EmptyList, List(<<Num(1)>>)}}
    \cup {Map1(tok, v) : tok \in Tokens \ LOGICAL_OPERATORS, v \in Operands}
    \cup {Map1(f, Map1(tok, v)) : f \in Fields,
                                  tok \in Tokens \ LOGICAL_OPERATORS,
                                  v \in Operands \cup {List(<<Num(0), Num(1)>>)}}

\* the components that lists of every length up to MaxLen are made of
ListComponents ==
    { EmptyMap, La, Lb, OrAB,
      Map2("$or", List(<<La, Lb>>), "b", Map1("$eq", Num(0))),
      List(<<La, Lb>>),
      Map1("a", Map1("$foo", Num(1))),
      Map1("a", Num(1)) }

\* a logical key over a list of components, or over one component
Logicals ==
    {Map1(L, List(cs)) : L \in LOGICAL_OPERATORS, cs \in SeqsUpTo(ListComponents, MaxLen)}
    \cup {Map1(L, List(<<c>>)) : L \in LOGICAL_OPERATORS, c \in Components}
    \cup {Map1(L, c) : L \in LOGICAL_OPERATORS, c \in Components}

\* entries of a mapping with several keys
MapEntries ==
    {Entry(f, Map1(op, Num(0))) : f \in Fields, op \in {"$gt", "$eq"}}
    \cup {Entry("a", Num(1)), Entry("$foo", Num(1)), Entry("b", Map1("$foo", Num(1)))}
    \cup {Entry(L, List(<<La, Lb>>)) : L \in LOGICAL_OPERATORS}
    \cup {Entry("$not", Lb), Entry("$or", List(<<>>))}

Mappings == {Map(es) : es \in {x \in SeqsFrom2(MapEntries, MaxLen) : DistinctKeys(x)}}

\* entries of one field's operator mapping
OpEntries ==
    {Entry("$gt", Num(0)), Entry("$lt", Num(1)), Entry("$eq", Num(1)),
     Entry("$neq", Num(0)), Entry("$foo", Num(1)),
     Entry("$not", Lb), Entry("$or", List(<<La, Lb>>)), Entry("$and", Num(1))}

OpMappings ==
    {Map1(f, Map(es)) : f \in Fields,
                        es \in {x \in SeqsFrom2(OpEntries, MaxLen) : DistinctKeys(x)}}

\* lists, also as the top-level spec and nested in lists
Lists ==
    {List(cs) : cs \in SeqsUpTo(ListComponents, MaxLen)}
    \cup {List(<<List(cs)>>) : cs \in SeqsUpTo(ListComponents, MaxLen)}
    \cup {List(<<c>>) : c \in Components}

\* one more level of nesting around a condition
Wrappings(c) ==
    { Map1("$not", c), Map1("$and", List(<<c>>)), Map1("$or", List(<<La, c>>)),
      Map1("a", Map1("$not", c)), Map1("b", Map1("$or", c)), List(<<c>>) }

Nested ==
    UNION {Wrappings(w) : w \in UNION {Wrappings(c) : c \in Components}}

\* a logical token as the single operator of a field
FieldScoped ==
    {Map1(f, Map1(L, v)) : f \in Fields, L \in LOGICAL_OPERATORS,
                           v \in Components \cup {List(<<Lb, OrAB>>)}}

Inputs == Singles \cup Components \cup Logicals \cup Mappings \cup OpMappings
              \cup Lists \cup Nested \cup FieldScoped

\* the specs of the concurrent-callers specification
InputsConc == Components


NoDoc == [f \in Fields |-> Absent]

InitWith(inputs, n) ==
    /\ arg \in inputs
    /\ phase = "new"
    /\ conditions = Null
    /\ lookup_groups = None
    /\ error = NoError
    /\ pc = [t \in 1..n |-> "idle"]
    /\ doc = [t \in 1..n |-> NoDoc]
    /\ result = [t \in 1..n |-> FALSE]

\* QueryParser.__init__, lines 104-106
Construct ==
    /\ phase = "new"
    /\ conditions' = arg
    /\ LET r == _parse_lookups(arg, None)
       IN  IF r.ok
           THEN /\ lookup_groups' = r.node
                /\ phase' = "ready"
                /\ error' = NoError
           ELSE /\ lookup_groups' = lookup_groups
                /\ phase' = "failed"
                /\ error' = r.err
    /\ UNCHANGED <<arg, pc, doc, result>>

\* a caller enters evaluate / __call__ with document d (lines 108, 111-112)
Call(t, d) ==
    /\ phase = "ready"
    /\ pc[t] \in {"idle", "returned"}
    /\ pc' = [pc EXCEPT ![t] = "evaluating"]
    /\ doc' = [doc EXCEPT ![t] = d]
    /\ result' = [result EXCEPT ![t] = FALSE]
    /\ UNCHANGED <<arg, phase, conditions, lookup_groups, error>>

\* an evaluation that memoizes its answer in place of the compiled tree
Evaluate_Memoizing(t) ==
    /\ pc[t] = "evaluating"
    /\ result' = [result EXCEPT ![t] = QueryParser_evaluate(lookup_groups, doc[t])]
    /\ lookup_groups' = IF result'[t] THEN None ELSE LookupNode("or", FALSE)
    /\ pc' = [pc EXCEPT ![t] = "returned"]
    /\ UNCHANGED <<arg, phase, conditions, error, doc>>
\* line 109: the caller's evaluation returns
Evaluate(t) ==
    /\ pc[t] = "evaluating"
    /\ result' = [result EXCEPT ![t] = QueryParser_evaluate(lookup_groups, doc[t])]
    /\ pc' = [pc EXCEPT ![t] = "returned"]
    /\ UNCHANGED <<arg, phase, conditions, lookup_groups, error, doc>>

Next ==
    \/ Construct
    \/ \E t \in DOMAIN pc : \E d \in Docs : Call(t, d)
    \/ \E t \in DOMAIN pc : Evaluate(t)

\* one caller, every condition spec
Init == InitWith(Inputs, 1)
Spec == Init /\ [][Next]_vars

\* NumCallers concurrent callers of one facade
InitConc == InitWith(InputsConc, NumCallers)
SpecConc == InitConc /\ [][Next]_vars

----------------------------------------------------------------------------
(* Properties.                                                              *)

Callers == DOMAIN pc

\* a facade compiled from c alone, and its answer on document d
Compile(c) == _parse_lookups(c, None)
Matches(c, d) ==
    LET r == Compile(c) IN r.ok /\ QueryParser_evaluate(r.node, d)

\* x is {L: [c1, ..., cn]}
IsLogicalOverList(x, L) ==
    /\ x.t = "map"
    /\ Len(x.e) = 1
    /\ x.e[1].k = L
    /\ x.e[1].v.t = "list"

\* C1: a QueryParser constructed from {} has no tree (lookup_groups is None),
\* its construction does not fail, and evaluate returns true for every
\* document.
C1_EmptySpecMatchesAll ==
    arg = EmptyMap =>
        /\ phase # "failed"
        /\ phase = "ready" => lookup_groups = None
        /\ \A t \in Callers : pc[t] = "returned" => result[t] = TRUE

C1_Witness ==
    /\ arg = EmptyMap
    /\ \E t \in Callers : pc[t] = "returned" /\ doc[t] # NoDoc /\ result[t]

\* C2: a facade compiled from {"$and": [c1, ..., cn]} exists exactly when
\* every ci compiles alone, and it matches a document iff every facade
\* compiled from ci alone matches it (n = 0: it matches every document).
C2_AndIsConjunction ==
    IsLogicalOverList(arg, "$and") =>
        LET cs == arg.e[1].v.e
        IN  /\ phase # "new" =>
                (phase = "ready") = (\A i \in 1..Len(cs) : Compile(cs[i].v).ok)
            /\ \A t \in Callers : pc[t] = "returned" =>
                result[t] = (\A i \in 1..Len(cs) : Matches(cs[i].v, doc[t]))

C2_Witness ==
    /\ IsLogicalOverList(arg, "$and")
    /\ Len(arg.e[1].v.e) = 2
    /\ \E t \in Callers :
        /\ pc[t] = "returned"
        /\ ~result[t]
        /\ Matches(arg.e[1].v.e[1].v, doc[t])
        /\ ~Matches(arg.e[1].v.e[2].v, doc[t])

\* C3: a facade compiled from {"$or": [c1, ..., cn]} matches a document iff
\* some facade compiled from ci alone matches it, each ci any legal spec,
\* the empty mapping included (n = 0: it matches no document).
C3_OrIsDisjunction ==
    IsLogicalOverList(arg, "$or") =>
        LET cs == arg.e[1].v.e
        IN  \A t \in Callers : pc[t] = "returned" =>
                result[t] = (\E i \in 1..Len(cs) : Matches(cs[i].v, doc[t]))

\* C4: a facade compiled from {"$not": c}, c a mapping or a list, matches a
\* document iff the facade compiled from c alone does not match it.
C4_NotIsNegation ==
    (/\ arg.t = "map"
     /\ Len(arg.e) = 1
     /\ arg.e[1].k = "$not"
     /\ arg.e[1].v.t \in {"map", "list"}) =>
        LET c == arg.e[1].v
        IN  \A t \in Callers : pc[t] = "returned" =>
                /\ Compile(c).ok
                /\ result[t] = ~Matches(c, doc[t])

\* C5: a facade compiled from a mapping with several entries matches a
\* document iff every facade compiled from one of its entries alone matches it.
C5_EntriesAreConjoined ==
    (arg.t = "map" /\ Len(arg.e) >= 2) =>
        \A t \in Callers : pc[t] = "returned" =>
            result[t] =
                (\A i \in 1..Len(arg.e) : Matches(Map1(arg.e[i].k, arg.e[i].v), doc[t]))

\* x is {f: {op1: v1, ..., opn: vn}} with a field name f and n >= 2
IsFieldWithSeveralOperators(x) ==
    /\ x.t = "map"
    /\ Len(x.e) = 1
    /\ x.e[1].k \notin LOGICAL_OPERATORS
    /\ ~startswith_dollar(x.e[1].k)
    /\ x.e[1].v.t = "map"
    /\ Len(x.e[1].v.e) >= 2

\* {"$and": [{f: {op1: v1}}, ..., {f: {opn: vn}}]}
ExplicitAnd(x) ==
    LET f == x.e[1].k
        items == x.e[1].v.e
    IN  Map1("$and",
             List([i \in 1..Len(items) |-> Map1(f, Map1(items[i].k, items[i].v))]))

\* C6: the facade compiled from {f: {op1: v1, ..., opn: vn}}, n >= 2, gives
\* on every document the result of the facade compiled from
\* {"$and": [{f: {op1: v1}}, ..., {f: {opn: vn}}]}, and the two compilations
\* fail on the same inputs with the same error.
C6_SeveralOperatorsAsExplicitAnd ==
    (IsFieldWithSeveralOperators(arg) /\ phase # "new") =>
        LET r == Compile(ExplicitAnd(arg))
        IN  /\ (phase = "ready") = r.ok
            /\ error = r.err
            /\ \A t \in Callers : pc[t] = "returned" =>
                result[t] = QueryParser_evaluate(r.node, doc[t])

C6_Witness ==
    /\ IsFieldWithSeveralOperators(arg)
    /\ \E t \in Callers : pc[t] = "returned" /\ result[t]

----------------------------------------------------------------------------
(* The faults of a condition spec, read off the spec alone: the positions   *)
(* the grammar parses as conditions are the top-level spec, the value of a  *)
(* logical key (also under a field), and the elements of a list.            *)

Fault(kind, tok) == [kind |-> kind, tok |-> tok]
HasDollar(k) == k # "" /\ Head(k) = "$"
IsNonEmptyMapping(v) == v.t = "map" /\ Len(v.e) > 0

RECURSIVE AllFaults(_)
\* every fault of the spec, wherever it is
AllFaults(data) ==
    LET OfOperator(op, val) ==
            IF op \in LOGICAL_OPERATORS THEN AllFaults(val)
            ELSE IF op \in SUPPORTED_OPERATORS THEN {}
            ELSE {Fault("unsupported", op)}
        OfEntry(k, v) ==
            IF k \in LOGICAL_OPERATORS THEN AllFaults(v)
            ELSE IF HasDollar(k) THEN {Fault("unsupported", k)}
            ELSE IF ~IsNonEmptyMapping(v) THEN {Fault("malformed", "")}
            ELSE UNION {OfOperator(v.e[j].k, v.e[j].v) : j \in 1..Len(v.e)}
    IN  IF data.t = "map"
        THEN UNION {OfEntry(data.e[i].k, data.e[i].v) : i \in 1..Len(data.e)}
        ELSE IF data.t = "list"
        THEN UNION {AllFaults(data.e[i].v) : i \in 1..Len(data.e)}
        ELSE {Fault("illegal", "")}

RECURSIVE FirstFault(_)
\* the first fault in traversal order (mapping entries and list elements in
\* their order, depth first), NoError when there is none
FirstFault(data) ==
    LET First(fs) ==
            IF \E i \in 1..Len(fs) : fs[i] # NoError
            THEN fs[CHOOSE i \in 1..Len(fs) :
                        fs[i] # NoError /\ \A j \in 1..(i - 1) : fs[j] = NoError]
            ELSE NoError
        OfOperator(op, val) ==
            IF op \in LOGICAL_OPERATORS THEN FirstFault(val)
            ELSE IF op \in SUPPORTED_OPERATORS THEN NoError
            ELSE Fault("unsupported", op)
        OfEntry(k, v) ==
            IF k \in LOGICAL_OPERATORS THEN FirstFault(v)
            ELSE IF HasDollar(k) THEN Fault("unsupported", k)
            ELSE IF ~IsNonEmptyMapping(v) THEN Fault("malformed", "")
            ELSE First([j \in 1..Len(v.e) |-> OfOperator(v.e[j].k, v.e[j].v)])
    IN  IF data.t = "map"
        THEN First([i \in 1..Len(data.e) |-> OfEntry(data.e[i].k, data.e[i].v)])
        ELSE IF data.t = "list"
        THEN First([i \in 1..Len(data.e) |-> FirstFault(data.e[i].v)])
        ELSE Fault("illegal", "")

HasUnsupportedToken(data) == \E f \in AllFaults(data) : f.kind = "unsupported"
HasMalformedCondition(data) == \E f \in AllFaults(data) : f.kind \in {"malformed", "illegal"}

\* C7 as stated: whenever a '$' key outside $and/$or/$not stands at condition
\* level, or a field's operator token is outside the registry, at any depth,
\* compilation fails with the unsupported-operator error naming such a token
\* and no facade is produced.
C7_UnsupportedAlwaysReported ==
    (HasUnsupportedToken(arg) /\ phase # "new") =>
        /\ phase = "failed"
        /\ lookup_groups = None
        /\ error.kind = "unsupported"
        /\ error \in AllFaults(arg)

\* C7 amended: with such a token in the spec, compilation fails and no facade
\* is produced; an unsupported-operator error names such a token; and the
\* error is the unsupported-operator error naming the first such token when
\* that token is the first fault in traversal order and no attach of a list
\* element to a bare leaf has failed before it.
C7_UnsupportedReportedWhenFirst ==
    (HasUnsupportedToken(arg) /\ phase # "new") =>
        /\ phase = "failed"
        /\ lookup_groups = None
        /\ error.kind = "unsupported" => error \in AllFaults(arg)
        /\ (FirstFault(arg).kind = "unsupported" /\ error.kind # "attribute") =>
                error = FirstFault(arg)

\* a '$' key two levels down is reported
C7_Witness ==
    /\ phase = "failed"
    /\ error = Fault("unsupported", "$foo")
    /\ arg.t = "map"
    /\ arg.e[1].k = "$not"
    /\ arg.e[1].v.t = "map"
    /\ arg.e[1].v.e[1].k \in LOGICAL_OPERATORS

\* C8 as stated: whenever a field's value is not a non-empty mapping, or a
\* parsed node is neither a mapping nor a list, compilation fails with the
\* malformed-condition error.
C8_MalformedAlwaysReported ==
    (HasMalformedCondition(arg) /\ phase # "new") =>
        /\ phase = "failed"
        /\ error.kind \in {"malformed", "illegal"}
        /\ error \in AllFaults(arg)

\* C8 amended: with such a value in the spec, compilation fails and no facade
\* is produced; a malformed-condition error answers such a value; and the
\* error is the malformed-condition error when that value is the first fault
\* in traversal order and no attach of a list element to a bare leaf has
\* failed before it.
C8_MalformedReportedWhenFirst ==
    (HasMalformedCondition(arg) /\ phase # "new") =>
        /\ phase = "failed"
        /\ lookup_groups = None
        /\ error.kind \in {"malformed", "illegal"} => error \in AllFaults(arg)
        /\ (FirstFault(arg).kind \in {"malformed", "illegal"} /\ error.kind # "attribute") =>
                error = FirstFault(arg)

\* an empty operator mapping under a field is reported
C8_Witness ==
    /\ phase = "failed"
    /\ error = Fault("malformed", "")
    /\ arg \in {Map1(f, EmptyMap) : f \in Fields}

\* C9: constructing a QueryParser ends in a compiled facade, an
\* unsupported-operator error or a malformed-condition error, and a failed
\* construction leaves no tree.
C9_ThreeOutcomes ==
    phase # "new" =>
        \/ phase = "ready" /\ error = NoError
        \/ /\ phase = "failed"
           /\ error.kind \in {"unsupported", "malformed", "illegal"}
           /\ lookup_groups = None

\* C10: once the facade is constructed, no step changes lookup_groups or
\* conditions, and every call that has returned holds the result a fresh
\* facade for the same spec gives on the call's document, whatever the other
\* callers do.
C10_EvaluationIsStateless ==
    [][phase = "ready" =>
        /\ lookup_groups' = lookup_groups
        /\ conditions' = conditions
        /\ \A t \in Callers : pc'[t] = "returned" => result'[t] = Matches(arg, doc'[t])
      ]_vars

\* one caller has returned true while another is evaluating another document
C10_Witness ==
    \E t1, t2 \in Callers :
        /\ t1 # t2
        /\ pc[t1] = "returned"
        /\ result[t1]
        /\ pc[t2] = "evaluating"
        /\ doc[t1] # doc[t2]
        /\ IsSet(lookup_groups)

\* C12: a list [c1, ..., cn] given as the spec is folded with the wrap-and-
\* attach rule of mapping entries (a bare leaf root is wrapped in a default
\* 'and' node before a further element is attached): it compiles exactly when
\* every element compiles alone, and the facade matches a document iff the
\* facade of every element matches it.
C12_ListIsConjunction ==
    arg.t = "list" =>
        /\ phase # "new" =>
            (phase = "ready") = (\A i \in 1..Len(arg.e) : Compile(arg.e[i].v).ok)
        /\ \A t \in Callers : pc[t] = "returned" =>
            result[t] = (\A i \in 1..Len(arg.e) : Matches(arg.e[i].v, doc[t]))

\* x is {f: {L: v}} with a field name f and a logical token L
IsFieldScopedLogical(x) ==
    /\ x.t = "map"
    /\ Len(x.e) = 1
    /\ x.e[1].k \notin LOGICAL_OPERATORS
    /\ ~HasDollar(x.e[1].k)
    /\ x.e[1].v.t = "map"
    /\ Len(x.e[1].v.e) = 1
    /\ x.e[1].v.e[1].k \in LOGICAL_OPERATORS

RECURSIVE KeysOf(_)
\* every mapping key written in a JSON value
KeysOf(v) ==
    IF v.t = "map"
    THEN {v.e[i].k : i \in 1..Len(v.e)} \cup UNION {KeysOf(v.e[i].v) : i \in 1..Len(v.e)}
    ELSE IF v.t = "list"
    THEN UNION {KeysOf(v.e[i].v) : i \in 1..Len(v.e)}
    ELSE {}

RECURSIVE LookupsOf(_)
\* the lookup keys of the leaves of a tree
LookupsOf(node) ==
    IF node.kind = "leaf"
    THEN {node.lookup}
    ELSE UNION {LookupsOf(node.children[i]) : i \in 1..Len(node.children)}

\* the lookup key starts with field f and "__"
LookupOnField(key, f) ==
    Len(key) >= Len(f) + 2 /\ SubSeq(key, 1, Len(f) + 2) = f \o "__"

IsNotOver(x) ==
    /\ x.t = "map"
    /\ Len(x.e) = 1
    /\ x.e[1].k = "$not"
    /\ x.e[1].v.t \in {"map", "list"}

\* the entries of a mapping as single-entry mappings, the elements of a list
PartsOf(v) ==
    IF v.t = "map"
    THEN [i \in 1..Len(v.e) |-> Map1(v.e[i].k, v.e[i].v)]
    ELSE [i \in 1..Len(v.e) |-> v.e[i].v]

\* the trees of the parts that yield one, in order
TreesOfParts(v) ==
    SelectSeq([i \in 1..Len(v.e) |-> Compile(PartsOf(v)[i]).node], IsSet)

\* C14 as stated: the node compiled for the key $not is a LookupNode with
\* negate = true and exactly one child, the predicate obtained by parsing v,
\* also when v has several entries or elements (a v that parses to no
\* predicate at all, such as {}, is left aside).
C14_NotHasOneChild ==
    (IsNotOver(arg) /\ phase = "ready" /\ IsSet(Compile(arg.e[1].v).node)) =>
        /\ lookup_groups.kind = "node"
        /\ lookup_groups.negate
        /\ Len(lookup_groups.children) = 1
        /\ lookup_groups.children[1] = Compile(arg.e[1].v).node

\* C14 amended: the node compiled for the key $not is a LookupNode with
\* negate = true and the default combinator whose children are the
\* predicates obtained by parsing each entry (mapping) or element (list) of v
\* on its own, in order, those that yield no tree being skipped; when exactly
\* one of them yields a tree, that one child is the predicate obtained by
\* parsing v.
C14_NotHoldsThePartsOfValue ==
    (IsNotOver(arg) /\ phase = "ready") =>
        LET v == arg.e[1].v
        IN  /\ lookup_groups.kind = "node"
            /\ lookup_groups.negate
            /\ lookup_groups.op = "and"
            /\ \A i \in 1..Len(v.e) : Compile(PartsOf(v)[i]).ok
            /\ lookup_groups.children = TreesOfParts(v)
            /\ Len(TreesOfParts(v)) = 1 =>
                    lookup_groups.children = <<Compile(v).node>>

\* a $not over a mapping of two entries holds two children
C14_Witness ==
    /\ IsNotOver(arg)
    /\ phase = "ready"
    /\ arg.e[1].v.t = "map"
    /\ Len(arg.e[1].v.e) = 2
    /\ Len(lookup_groups.children) = 2

====
